---- MODULE Spec2Model ----
(***************************************************************************)
(* Model of the fman "Everything" search plugin, everything/__init__.py:   *)
(* the two search backends with their one-way fallback, the result cache   *)
(* of EverythingFS, the path decoding of iterdir, resolve, the index lookup *)
(* of get_item_at_index, the Size column and EverythingOpenListener.       *)
(*                                                                         *)
(* Strings (paths, search terms) are sequences of one-character strings,   *)
(* so that slicing, splitting, isdigit and percent-coding are computed.    *)
(* Python indices are 0-based: results[i] of the code is results[i + 1].   *)
(***************************************************************************)
EXTENDS Integers, Sequences, FiniteSets, TLC

VARIABLES
    mode,                 \* SETTINGS['mode'] after module load: "dll" or "api"
    everything_dll,       \* TRUE iff the global everything_dll is not None
    current_search_term,  \* EverythingFS._current_search_term
    results_cache,        \* EverythingFS._results_cache: term -> [count, results]
    lastOp,               \* observation: the last call, its argument and outcome
    probe,                \* history: the search term whose listings are logged
    probeLog,             \* history: one record per listing of probe, in order
    last_selected_file,   \* EverythingFS._last_selected_file: <<>> for None
    last_selected_index,  \* EverythingFS._last_selected_index
    selectedUnder,        \* history: the current search term when the file was stored
    answers,              \* observation: what the environment answered the last call
    pane,                 \* observation: the calls the last call made on the host
    startup               \* history: what the module load met, NoStartup if not kept

vars == <<mode, everything_dll, current_search_term, results_cache, lastOp, probe,
          probeLog, last_selected_file, last_selected_index, selectedUnder, answers,
          pane, startup>>

(***************************************************************************)
(* Program constants and model bounds                                      *)
(***************************************************************************)
ResultCap == 100
MinQueryLen == 3
MaxResults == 101
MaxListings == 2

(***************************************************************************)
(* Strings                                                                 *)
(***************************************************************************)
Digits == <<"0", "1", "2", "3", "4", "5", "6", "7", "8", "9">>
DigitSet == {Digits[i] : i \in 1..10}
HexSet == DigitSet \cup {"A", "B", "C", "D", "E", "F", "a", "b", "c", "d", "e", "f"}

\* str.isdigit(): non-empty and every character a decimal digit
IsDigit(s) == Len(s) > 0 /\ \A i \in 1..Len(s) : s[i] \in DigitSet

\* str(i) for i >= 0
RECURSIVE Decimal(_)
Decimal(i) == IF i < 10 THEN <<Digits[i + 1]>>
              ELSE Decimal(i \div 10) \o <<Digits[(i % 10) + 1]>>

\* int(s) for a string of decimal digits
RECURSIVE ToInt(_)
ToInt(s) ==
    IF Len(s) = 0 THEN 0
    ELSE 10 * ToInt(SubSeq(s, 1, Len(s) - 1))
         + (CHOOSE d \in 0..9 : Digits[d + 1] = s[Len(s)])

\* s[1:]
Tail1(s) == IF Len(s) = 0 THEN <<>> ELSE SubSeq(s, 2, Len(s))

\* c in s
Contains(s, c) == \E i \in 1..Len(s) : s[i] = c

\* s.count(c)
Count(s, c) == Cardinality({i \in 1..Len(s) : s[i] = c})

\* s.split(c, 1)[1] for a string that contains c
AfterFirst(s, c) ==
    LET k == CHOOSE i \in 1..Len(s) : s[i] = c /\ \A j \in 1..(i - 1) : s[j] # c
    IN SubSeq(s, k + 1, Len(s))

\* urllib.parse.quote(s): letters, digits and "_.-~/" are kept, every other
\* character becomes its %XX escape
QuoteChar(c) ==
    CASE c = " " -> <<"%", "2", "0">>
      [] c = "?" -> <<"%", "3", "F">>
      [] c = "%" -> <<"%", "2", "5">>
      [] c = ":" -> <<"%", "3", "A">>
      [] OTHER   -> <<c>>

RECURSIVE Quote(_)
Quote(s) == IF Len(s) = 0 THEN <<>> ELSE QuoteChar(Head(s)) \o Quote(Tail(s))

\* the character of an escape %XY
UnquoteCode(x, y) ==
    CASE x = "2" /\ y = "0" -> " "
      [] x = "3" /\ y \in {"F", "f"} -> "?"
      [] x = "2" /\ y = "5" -> "%"
      [] x = "3" /\ y \in {"A", "a"} -> ":"
      [] OTHER -> "#"

\* urllib.parse.unquote(s): %XY with two hex digits is decoded, any other
\* "%" is left as it is
RECURSIVE Unquote(_)
Unquote(s) ==
    IF Len(s) = 0 THEN <<>>
    ELSE IF s[1] = "%" /\ Len(s) >= 3 /\ s[2] \in HexSet /\ s[3] \in HexSet
         THEN <<UnquoteCode(s[2], s[3])>> \o Unquote(SubSeq(s, 4, Len(s)))
         ELSE <<s[1]>> \o Unquote(Tail(s))

Placeholder == <<"p", "l", "a", "c", "e", "h", "o", "l", "d", "e", "r">>

\* s.endswith(suffix)
EndsWith(s, suffix) ==
    Len(s) >= Len(suffix) /\ SubSeq(s, Len(s) - Len(suffix) + 1, Len(s)) = suffix

\* s.rsplit(c, 1)[1] for a string s that contains c
AfterLast(s, c) ==
    LET i == CHOOSE k \in 1..Len(s) : s[k] = c /\ \A j \in (k + 1)..Len(s) : s[j] # c
    IN SubSeq(s, i + 1, Len(s))

\* next((p for p in reversed(s.split(c)) if p), None): the last non-empty
\* part of s between the separators, <<>> when there is none
RECURSIVE LastNonEmptyPart(_, _)
LastNonEmptyPart(s, c) ==
    IF Len(s) = 0 THEN <<>>
    ELSE IF s[Len(s)] = c THEN LastNonEmptyPart(SubSeq(s, 1, Len(s) - 1), c)
    ELSE IF Contains(s, c) THEN AfterLast(s, c)
    ELSE s

\* s.strip() for the blank
RECURSIVE Strip(_)
Strip(s) ==
    IF Len(s) = 0 THEN s
    ELSE IF s[1] = " " THEN Strip(Tail(s))
    ELSE IF s[Len(s)] = " " THEN Strip(SubSeq(s, 1, Len(s) - 1))
    ELSE s

\* int(s): <<n>> for the integer n, <<>> for a ValueError.  Python accepts
\* blanks around the number, one sign, and single underscores between digits.
PyInt(s) ==
    LET t == Strip(s)
        signed == Len(t) > 0 /\ t[1] \in {"+", "-"}
        body == IF signed THEN Tail(t) ELSE t
        digits == SelectSeq(body, LAMBDA c : c # "_")
        grouped == /\ Len(body) > 0
                   /\ body[1] # "_" /\ body[Len(body)] # "_"
                   /\ \A i \in 1..(Len(body) - 1) : ~(body[i] = "_" /\ body[i + 1] = "_")
    IN IF grouped /\ IsDigit(digits)
       THEN <<IF signed /\ t[1] = "-" THEN 0 - ToInt(digits) ELSE ToInt(digits)>>
       ELSE <<>>

\* URLs: fman's splitscheme(url) gives the scheme and the path, as_url(path)
\* is the file:// URL of a path of the real file system
Url(scheme, path) == [scheme |-> scheme, path |-> path]
AsUrl(file_path) == Url("file://", file_path)
Scheme == "everything://"

(***************************************************************************)
(* Backends.  What the Everything DLL and the HTTP API answer is outside   *)
(* the program: every call draws its answer from the sets below.           *)
(***************************************************************************)
\* A size in bytes is the pair [mib, rest] standing for mib * 1024^2 + rest with
\* 0 <= rest < 1024^2, so that sizes of several GB stay within TLC's integers.
Kib == 1024
Mib == Kib * Kib
Bytes(mib, rest) == [mib |-> mib, rest |-> rest]

\* the sizes the backends report for the results, by the index of the result
SizeTable ==
    <<Bytes(0, 512), Bytes(0, 2048), Bytes(5, 0), Bytes(3 * Kib, 0),
      Bytes(0, 0), Bytes(0, 1023), Bytes(0, 1024), Bytes(0, 1280),
      Bytes(0, 1076), Bytes(0, Mib - 1), Bytes(1, 0), Bytes(1, 576716),
      Bytes(Kib - 1, Mib - 1), Bytes(Kib, 0), Bytes(2 * Kib + 256, 0),
      Bytes(5000000, 123456)>>

SizeOf(i) == SizeTable[(i % Len(SizeTable)) + 1]

\* None, where a string is expected: no string of characters equals it
PyNone == <<"None">>

\* the modification dates the backends report for the results, by the index
\* of the result: ISO strings with and without a zone, with microseconds (the
\* isoformat() of the DLL's timestamp), None where the DLL could not read the
\* date or the API sent null, and strings that are no dates
DateTable ==
    <<<<"2", "0", "2", "4", "-", "0", "3", "-", "0", "5", "T", "1", "2", ":", "3", "0", ":", "0", "0", "Z">>,
      PyNone,
      <<"2", "0", "2", "4", "-", "0", "3", "-", "0", "5", "T", "1", "2", ":", "3", "0", ":", "0", "0", "+", "0", "1", ":", "0", "0">>,
      <<"2", "0", "2", "4", "-", "0", "3", "-", "0", "5", "T", "1", "2", ":", "3", "0", ":", "0", "0", "-", "0", "5", ":", "0", "0">>,
      <<"2", "0", "2", "4", "-", "0", "3", "-", "0", "5", "T", "1", "2", ":", "3", "0", ":", "0", "0">>,
      <<"2", "0", "2", "4", "-", "0", "3", "-", "0", "5", "T", "1", "2", ":", "3", "0", ":", "0", "0", ".", "1", "2", "3", "4", "5", "6">>,
      <<"y", "e", "s", "t", "e", "r", "d", "a", "y">>,
      <<"2", "0", "2", "4", "-", "3", "-", "5", "T", "1", ":", "2", ":", "3">>,
      <<"2", "0", "2", "4", "-", "0", "2", "-", "3", "0", "T", "1", "2", ":", "3", "0", ":", "0", "0">>,
      <<>>,
      <<"2", "0", "2", "3", "-", "1", "2", "-", "3", "1", "T", "2", "3", ":", "5", "9", ":", "5", "9", "Z">>,
      <<"2", "0", "2", "4", "-", "0", "3", "-", "0", "5", "T", "1", "2", ":", "3", "0", ":", "6", "0">>,
      <<"2", "0", "2", "4", "-", "0", "3", "-", "0", "5", " ", "1", "2", ":", "3", "0", ":", "0", "0">>,
      <<"2", "0", "2", "4", "-", "0", "2", "-", "2", "9", "T", "0", "0", ":", "0", "0", ":", "0", "0", "-", "0", "5", "0", "0">>>>

DateOf(i) == DateTable[(i % Len(DateTable)) + 1]

\* one search result, a dict with the keys filename, path, size, date_modified
Entry(query, i) ==
    [filename |-> <<"f", i>>,
     path |-> <<"C:", query, i>>,
     size |-> SizeOf(i),
     date_modified |-> DateOf(i)]

\* answers of the DLL: Everything_QueryW fails, a ctypes call raises, or the
\* query succeeds with `count` results of which `unreadable` have no full path
NativeOutcomes ==
    {[kind |-> k, count |-> 0, unreadable |-> {}] : k \in {"query_failed", "exception"}}
    \cup {[kind |-> "ok", count |-> c, unreadable |-> {}] : c \in {0, 2, MaxResults}}
    \cup {[kind |-> "ok", count |-> 2, unreadable |-> {0}]}

\* answers of the HTTP API: an HTTP error status (urlopen raises HTTPError), a
\* network failure while connecting or sending (urlopen raises URLError), no
\* answer within the 5 seconds after the request was sent (socket.timeout
\* leaves urlopen or response.read() as it is, not wrapped in a URLError), a
\* body that is not JSON, a JSON body that is no object, or a JSON object with
\* the number `count` and a list of `len` results (the two need not agree)
RemoteOutcomes ==
    {[kind |-> "http", status |-> st, count |-> 0, len |-> 0] : st \in {400, 404, 500}}
    \cup {[kind |-> k, status |-> 0, count |-> 0, len |-> 0] :
            k \in {"url_error", "read_timeout", "json_error", "not_object"}}
    \cup {[kind |-> "ok", status |-> 200, count |-> cl[1], len |-> cl[2]] :
            cl \in {<<0, 0>>, <<2, 2>>, <<5, 2>>, <<MaxResults, MaxResults>>}}

Min(a, b) == IF a < b THEN a ELSE b

\* the results list search_everything_dll builds
NativeResults(query, nat) ==
    LET read == SelectSeq([k \in 1..Min(nat.count, ResultCap) |-> k - 1],
                          LAMBDA i : i \notin nat.unreadable)
    IN [k \in 1..Len(read) |-> Entry(query, read[k])]

SearchEverythingDll(query, nat) ==
    IF ~everything_dll
    THEN [ok |-> FALSE, error |-> "dll_not_loaded", count |-> 0, results |-> <<>>]
    ELSE IF nat.kind = "query_failed"
    THEN [ok |-> FALSE, error |-> "dll_query_failed", count |-> 0, results |-> <<>>]
    ELSE IF nat.kind = "exception"
    THEN [ok |-> FALSE, error |-> "dll_exception", count |-> 0, results |-> <<>>]
    ELSE [ok |-> TRUE, error |-> "", count |-> nat.count,
          results |-> NativeResults(query, nat)]

\* the message search_everything_api raises for a failure
ApiError(rem) ==
    CASE rem.kind = "http" /\ rem.status = 400 -> "invalid_query"
      [] rem.kind = "http" /\ rem.status = 404 -> "endpoint_not_found"
      [] rem.kind = "http" -> "http_error"
      [] rem.kind = "url_error" -> "connection_failed"
      [] rem.kind = "json_error" -> "parse_error"
      [] OTHER -> "api_error"

SearchEverythingApi(query, rem) ==
    IF rem.kind = "ok"
    THEN [ok |-> TRUE, error |-> "", count |-> rem.count,
          results |-> [k \in 1..rem.len |-> Entry(query, k - 1)]]
    ELSE [ok |-> FALSE, error |-> ApiError(rem), count |-> 0, results |-> <<>>]

\* one entry of the call log: the backend, the query it was given, and what it
\* returned (the count and the number of results) or raised
Call(backend, query, r) ==
    [backend |-> backend, query |-> query, ok |-> r.ok, error |-> r.error,
     count |-> r.count, len |-> Len(r.results)]

\* search_everything without the fallback to the API
SearchEverythingNoFallback(query, nat, rem) ==
    LET d == SearchEverythingDll(query, nat)
        a == SearchEverythingApi(query, rem)
    IN IF mode = "dll"
       THEN [ok |-> d.ok, count |-> d.count, results |-> d.results,
             calls |-> <<Call("dll", query, d)>>]
       ELSE [ok |-> a.ok, count |-> a.count, results |-> a.results,
             calls |-> <<Call("api", query, a)>>]

\* search_everything that also falls back from the API to the DLL
SearchEverythingBothWays(query, nat, rem) ==
    LET d == SearchEverythingDll(query, nat)
        a == SearchEverythingApi(query, rem)
    IN IF mode = "dll"
       THEN IF d.ok
            THEN [ok |-> TRUE, count |-> d.count, results |-> d.results,
                  calls |-> <<Call("dll", query, d)>>]
            ELSE [ok |-> a.ok, count |-> a.count, results |-> a.results,
                  calls |-> <<Call("dll", query, d), Call("api", query, a)>>]
       ELSE IF a.ok
            THEN [ok |-> TRUE, count |-> a.count, results |-> a.results,
                  calls |-> <<Call("api", query, a)>>]
            ELSE [ok |-> d.ok, count |-> d.count, results |-> d.results,
                  calls |-> <<Call("api", query, a), Call("dll", query, d)>>]

\* search_everything: the outcome and the backend calls made, in order
SearchEverything(query, nat, rem) ==
    LET d == SearchEverythingDll(query, nat)
        a == SearchEverythingApi(query, rem)
    IN IF mode = "dll"
       THEN IF d.ok
            THEN [ok |-> TRUE, count |-> d.count, results |-> d.results,
                  calls |-> <<Call("dll", query, d)>>]
            ELSE [ok |-> a.ok, count |-> a.count, results |-> a.results,
                  calls |-> <<Call("dll", query, d), Call("api", query, a)>>]
       ELSE [ok |-> a.ok, count |-> a.count, results |-> a.results,
             calls |-> <<Call("api", query, a)>>]

(***************************************************************************)
(* EverythingFS                                                            *)
(***************************************************************************)
NoCache == [q \in {} |-> 0]

Cached(cache, term) == term \in DOMAIN cache

\* a store that keeps nothing but the entry stored
CachePutAlone(cache, term, entry) == [q \in {term} |-> entry]

CachePut(cache, term, entry) ==
    [q \in DOMAIN cache \cup {term} |-> IF q = term THEN entry ELSE cache[q]]

CacheDel(cache, term) == [q \in DOMAIN cache \ {term} |-> cache[q]]

\* the results stored as they came, without the limit
CappedNever(results) == results

\* the last 100 results kept
CappedLast(results) ==
    IF Len(results) > ResultCap
    THEN SubSeq(results, Len(results) - ResultCap + 1, Len(results)) ELSE results

\* results[:100] when len(results) > 100
Capped(results) ==
    IF Len(results) > ResultCap THEN SubSeq(results, 1, ResultCap) ELSE results

\* update_search with an except branch that stores an empty result
UpdateSearchCachesFailure(cache, search_term, nat, rem) ==
    IF Len(search_term) >= MinQueryLen
    THEN IF Cached(cache, search_term)
         THEN [cache |-> cache, calls |-> <<>>, searches |-> 0, raised |-> FALSE]
         ELSE LET r == SearchEverything(search_term, nat, rem)
              IN [cache |-> CachePut(cache, search_term,
                                [count |-> r.count, results |-> Capped(r.results)]),
                  calls |-> r.calls, searches |-> 1, raised |-> FALSE]
    ELSE [cache |-> cache, calls |-> <<>>, searches |-> 0, raised |-> FALSE]

\* update_search without the lookup of the cache
UpdateSearchNoCacheCheck(cache, search_term, nat, rem) ==
    IF Len(search_term) >= MinQueryLen
    THEN LET r == SearchEverything(search_term, nat, rem)
         IN IF r.ok
            THEN [cache |-> CachePut(cache, search_term,
                               [count |-> r.count, results |-> Capped(r.results)]),
                  calls |-> r.calls, searches |-> 1, raised |-> FALSE]
            ELSE [cache |-> CacheDel(cache, search_term),
                  calls |-> r.calls, searches |-> 1, raised |-> FALSE]
    ELSE [cache |-> cache, calls |-> <<>>, searches |-> 0, raised |-> FALSE]

\* update_search without the check of the length of the search term
UpdateSearchAnyLength(cache, search_term, nat, rem) ==
    IF Cached(cache, search_term)
    THEN [cache |-> cache, calls |-> <<>>, searches |-> 0, raised |-> FALSE]
    ELSE LET r == SearchEverything(search_term, nat, rem)
         IN IF r.ok
            THEN [cache |-> CachePut(cache, search_term,
                               [count |-> r.count, results |-> Capped(r.results)]),
                  calls |-> r.calls, searches |-> 1, raised |-> FALSE]
            ELSE [cache |-> CacheDel(cache, search_term),
                  calls |-> r.calls, searches |-> 1, raised |-> FALSE]

\* update_search, after it has set _current_search_term: the cache it leaves,
\* the backend calls it made, the number of search_everything calls, and
\* whether an exception leaves it
UpdateSearch(cache, search_term, nat, rem) ==
    IF Len(search_term) >= MinQueryLen
    THEN IF Cached(cache, search_term)
         THEN [cache |-> cache, calls |-> <<>>, searches |-> 0, raised |-> FALSE]
         ELSE LET r == SearchEverything(search_term, nat, rem)
              IN IF r.ok
                 THEN [cache |-> CachePut(cache, search_term,
                                    [count |-> r.count, results |-> Capped(r.results)]),
                       calls |-> r.calls, searches |-> 1, raised |-> FALSE]
                 ELSE [cache |-> CacheDel(cache, search_term),
                       calls |-> r.calls, searches |-> 1, raised |-> FALSE]
    ELSE [cache |-> cache, calls |-> <<>>, searches |-> 0, raised |-> FALSE]

\* the first part of iterdir without the test for a result item path
DecodeListingAnyTerm(path) ==
    IF Contains(path, "?")
    THEN [update |-> TRUE, term |-> Unquote(AfterFirst(path, "?"))]
    ELSE IF Count(path, "/") >= 1
    THEN IF path[1] = "/"
         THEN [update |-> TRUE, term |-> Unquote(Tail1(path))]
         ELSE [update |-> TRUE, term |-> Unquote(path)]
    ELSE [update |-> TRUE, term |-> <<>>]

\* the first part of iterdir: whether it calls update_search, and with which
\* search term
DecodeListing(path) ==
    IF Contains(path, "?")
    THEN [update |-> TRUE, term |-> Unquote(AfterFirst(path, "?"))]
    ELSE IF Count(path, "/") >= 1
    THEN IF path[1] = "/"
         THEN IF IsDigit(Tail1(path))
              THEN [update |-> FALSE, term |-> <<>>]
              ELSE [update |-> TRUE, term |-> Unquote(Tail1(path))]
         ELSE [update |-> TRUE, term |-> Unquote(path)]
    ELSE [update |-> TRUE, term |-> <<>>]

\* iterdir yielding the indices from 1
YieldedFromOne(term, cache) ==
    IF Len(term) < MinQueryLen
    THEN <<Placeholder>>
    ELSE IF Cached(cache, term)
    THEN [k \in 1..Len(cache[term].results) |-> <<"/">> \o Decimal(k)]
    ELSE <<Placeholder>>

\* the second part of iterdir: what it yields
Yielded(term, cache) ==
    IF Len(term) < MinQueryLen
    THEN <<Placeholder>>
    ELSE IF Cached(cache, term)
    THEN [k \in 1..Len(cache[term].results) |-> <<"/">> \o Decimal(k - 1)]
    ELSE <<Placeholder>>

\* get_item_at_index without the lower bound: a negative index counts from
\* the end of the list, as Python's results[index] does
GetItemNegativeWraps(term, cache, index) ==
    IF Len(term) < MinQueryLen
    THEN <<>>
    ELSE IF Cached(cache, term)
    THEN LET n == Len(cache[term].results)
         IN IF index < n /\ index >= 0 - n
            THEN <<cache[term].results[IF index >= 0 THEN index + 1 ELSE n + index + 1]>>
            ELSE <<>>
    ELSE <<>>

\* get_item_at_index: <<>> for None, <<item>> for an item
GetItem(term, cache, index) ==
    IF Len(term) < MinQueryLen
    THEN <<>>
    ELSE IF Cached(cache, term)
    THEN IF 0 <= index /\ index < Len(cache[term].results)
         THEN <<cache[term].results[index + 1]>>
         ELSE <<>>
    ELSE <<>>

\* s.split(c)[0]: the part of s before the first c, s itself without a c
BeforeFirst(s, c) ==
    IF Contains(s, c)
    THEN SubSeq(s, 1, (CHOOSE k \in 1..Len(s) :
                          s[k] = c /\ \A j \in 1..(k - 1) : s[j] # c) - 1)
    ELSE s

\* s.rsplit(c, 1)[0] for a string s that contains c
BeforeLast(s, c) ==
    SubSeq(s, 1, (CHOOSE k \in 1..Len(s) :
                     s[k] = c /\ \A j \in (k + 1)..Len(s) : s[j] # c) - 1)

\* resolve reading the index of the path as a position counted from 1
ResolvedFromOne(term, cache, path) ==
    IF path = Placeholder THEN Url(Scheme, path)
    ELSE IF Contains(path, "/")
    THEN LET index == PyInt(AfterLast(path, "/"))
         IN IF index # <<>> /\ Cached(cache, term)
               /\ 1 <= index[1] /\ index[1] <= Len(cache[term].results)
            THEN AsUrl(cache[term].results[index[1]].path)
            ELSE Url(Scheme, path)
    ELSE Url(Scheme, path)

\* resolve looking up the results of the search term the path names
ResolvedByPathTerm(term, cache, path) ==
    IF path = Placeholder THEN Url(Scheme, path)
    ELSE IF Contains(path, "/")
    THEN LET index == PyInt(AfterLast(path, "/"))
             named == Unquote(Tail1(BeforeLast(path, "/")))
         IN IF index # <<>> /\ Cached(cache, named)
               /\ 0 <= index[1] /\ index[1] < Len(cache[named].results)
            THEN AsUrl(cache[named].results[index[1] + 1].path)
            ELSE Url(Scheme, path)
    ELSE Url(Scheme, path)

\* resolve: the URL it returns
Resolved(term, cache, path) ==
    IF path = Placeholder THEN Url(Scheme, path)
    ELSE IF Contains(path, "/")
    THEN LET index == PyInt(AfterLast(path, "/"))
         IN IF index # <<>> /\ Cached(cache, term)
               /\ 0 <= index[1] /\ index[1] < Len(cache[term].results)
            THEN AsUrl(cache[term].results[index[1] + 1].path)
            ELSE Url(Scheme, path)
    ELSE Url(Scheme, path)

(***************************************************************************)
(* Columns and EverythingOpenListener                                      *)
(***************************************************************************)
\* the index read from the last character alone when it is 0, 1 or 2
ExtractIndexLastChar(path) ==
    IF Len(path) > 0 /\ path[Len(path)] \in {"0", "1", "2"}
    THEN <<ToInt(<<path[Len(path)]>>)>>
    ELSE IF Contains(path, "/")
    THEN LET index_str == LastNonEmptyPart(path, "/")
         IN IF IsDigit(index_str) THEN <<ToInt(index_str)>> ELSE <<>>
    ELSE <<>>

\* the index Size.get_str, DateModified.get_str and on_doubleclicked read from
\* a path: the last character after '/0', '/1', '/2', else the last non-empty
\* part if it is all digits; <<>> where they give up
ExtractIndex(path) ==
    IF \E c \in {"0", "1", "2"} : EndsWith(path, <<"/", c>>)
    THEN <<ToInt(<<path[Len(path)]>>)>>
    ELSE IF Contains(path, "/")
    THEN LET index_str == LastNonEmptyPart(path, "/")
         IN IF IsDigit(index_str) THEN <<ToInt(index_str)>> ELSE <<>>
    ELSE <<>>

\* the index on_command reads from a path: no shortcut for '/0', '/1', '/2'
ExtractIndexGeneral(path) ==
    IF Contains(path, "/")
    THEN LET index_str == LastNonEmptyPart(path, "/")
         IN IF IsDigit(index_str) THEN <<ToInt(index_str)>> ELSE <<>>
    ELSE <<>>

\* 10 * size = q * d + r with 0 <= r < d, for the unit d = 1024, 1024^2 or
\* 1024^3 bytes (unit "K", "M", "G")
TimesTenOver(size, unit) ==
    LET a == 10 * size.mib + ((10 * size.rest) \div Mib)
        b == (10 * size.rest) % Mib
    IN CASE unit = "K" -> [q |-> (a * Kib) + (b \div Kib), r |-> b % Kib, d |-> Kib]
         [] unit = "M" -> [q |-> a, r |-> b, d |-> Mib]
         [] OTHER -> [q |-> a \div Kib, r |-> ((a % Kib) * Mib) + b, d |-> Kib * Mib]

\* the tenths cut off instead of rounded
RoundDown(x) == x.q

\* "{:.1f}": the quotient in tenths, rounded to the nearest, a tie to the even
\* tenth (the division by a power of two is exact in a float)
RoundHalfEven(x) ==
    IF x.r > x.d \div 2 \/ (x.r = x.d \div 2 /\ x.q % 2 = 1) THEN x.q + 1 ELSE x.q

\* a number of tenths written with one decimal
OneDecimal(tenths) == Decimal(tenths \div 10) \o <<".", Digits[(tenths % 10) + 1]>>

\* the size as Size.get_str formats it
FormatSize(size) ==
    IF size.mib = 0 /\ size.rest < Kib
    THEN Decimal(size.rest) \o <<" ", "B">>
    ELSE IF size.mib = 0
    THEN OneDecimal(RoundHalfEven(TimesTenOver(size, "K"))) \o <<" ", "K", "B">>
    ELSE IF size.mib < Kib
    THEN OneDecimal(RoundHalfEven(TimesTenOver(size, "M"))) \o <<" ", "M", "B">>
    ELSE OneDecimal(RoundHalfEven(TimesTenOver(size, "G"))) \o <<" ", "G", "B">>

\* Size.get_str(url): the text of the Size column
SizeStr(term, cache, url) ==
    IF url.scheme # Scheme THEN <<>>
    ELSE IF url.path = Placeholder THEN <<>>
    ELSE LET index == ExtractIndex(url.path)
         IN IF Len(index) = 0 THEN <<>>
            ELSE LET item == GetItem(term, cache, index[1])
                 IN IF Len(item) = 0 THEN <<>> ELSE FormatSize(item[1].size)

\* the zone cut off, a 'Z' left in place
StripZoneKeepsZ(date_str) ==
    IF Contains(date_str, "+") THEN BeforeFirst(date_str, "+")
    ELSE IF Contains(date_str, "-") /\ Count(date_str, "-") > 2
    THEN BeforeLast(date_str, "-")
    ELSE date_str

\* the zone cut off as DateModified.get_str does: every 'Z' removed, else the
\* text from the first '+', else the text from the last '-' if there are more
\* than two
StripZone(date_str) ==
    IF Contains(date_str, "Z") THEN SelectSeq(date_str, LAMBDA c : c # "Z")
    ELSE IF Contains(date_str, "+") THEN BeforeFirst(date_str, "+")
    ELSE IF Contains(date_str, "-") /\ Count(date_str, "-") > 2
    THEN BeforeLast(date_str, "-")
    ELSE date_str

\* the days of a month of the proleptic Gregorian calendar
DaysInMonth(year, month) ==
    IF month = 2
    THEN IF year % 4 = 0 /\ (year % 100 # 0 \/ year % 400 = 0) THEN 29 ELSE 28
    ELSE IF month \in {4, 6, 9, 11} THEN 30 ELSE 31

\* one or two digits with a value from lo to hi: a field of strptime
Field(text, lo, hi) ==
    /\ Len(text) \in {1, 2} /\ IsDigit(text)
    /\ lo <= ToInt(text) /\ ToInt(text) <= hi

\* datetime.strptime(date_str, '%Y-%m-%dT%H:%M:%S'): <<date>> for the date
\* parsed, <<>> for a ValueError.  %Y takes four digits, the other fields
\* one or two (%d a blank and a digit as well); %S takes 60 and 61, which
\* datetime then refuses, as it refuses the year 0 and a day the month lacks;
\* the literal T of the format matches in either case.
Strptime(date_string) ==
    LET date_str == [k \in 1..Len(date_string) |->
                        IF date_string[k] = "t" THEN "T" ELSE date_string[k]]
        year == BeforeFirst(date_str, "-")
        r1 == AfterFirst(date_str, "-")
        month == BeforeFirst(r1, "-")
        r2 == AfterFirst(r1, "-")
        dayText == BeforeFirst(r2, "T")
        day == IF Len(dayText) = 2 /\ dayText[1] = " " THEN Tail(dayText) ELSE dayText
        r3 == AfterFirst(r2, "T")
        hour == BeforeFirst(r3, ":")
        r4 == AfterFirst(r3, ":")
        minute == BeforeFirst(r4, ":")
        second == AfterFirst(r4, ":")
    IN IF /\ Count(date_str, "-") >= 2 /\ Contains(r2, "T") /\ Count(r3, ":") >= 2
          /\ Len(year) = 4 /\ IsDigit(year) /\ ToInt(year) >= 1
          /\ Field(month, 1, 12)
          /\ Field(day, 1, 31) /\ (Len(day) = 1 => day # <<"0">>)
          /\ ToInt(day) <= DaysInMonth(ToInt(year), ToInt(month))
          /\ Field(hour, 0, 23) /\ Field(minute, 0, 59) /\ Field(second, 0, 59)
       THEN <<[year |-> ToInt(year), month |-> ToInt(month), day |-> ToInt(day),
               hour |-> ToInt(hour), minute |-> ToInt(minute),
               second |-> ToInt(second)]>>
       ELSE <<>>

\* a number written with at least `width` digits
RECURSIVE Padded(_, _)
Padded(n, width) ==
    IF Len(Decimal(n)) >= width THEN Decimal(n)
    ELSE <<"0">> \o Padded(n, width - 1)

\* date.strftime("%Y-%m-%d %H:%M:%S")
Strftime(date) ==
    Padded(date.year, 4) \o <<"-">> \o Padded(date.month, 2) \o <<"-">>
    \o Padded(date.day, 2) \o <<" ">> \o Padded(date.hour, 2) \o <<":">>
    \o Padded(date.minute, 2) \o <<":">> \o Padded(date.second, 2)

\* the date as DateModified.get_str formats it; None raises a TypeError at
\* 'Z' in date_str, and the handler returns item['date_modified'], as it does
\* for a string strptime refuses
FormatDate(date_modified) ==
    IF date_modified = PyNone THEN date_modified
    ELSE LET date == Strptime(StripZone(date_modified))
         IN IF Len(date) = 0 THEN date_modified ELSE Strftime(date[1])

\* DateModified.get_str(url): the text of the DateModified column
DateModifiedStr(term, cache, url) ==
    IF url.scheme # Scheme THEN <<>>
    ELSE IF url.path = Placeholder THEN <<>>
    ELSE LET index == ExtractIndex(url.path)
         IN IF Len(index) = 0 THEN <<>>
            ELSE LET item == GetItem(term, cache, index[1])
                 IN IF Len(item) = 0 THEN <<>> ELSE FormatDate(item[1].date_modified)

\* fman's basename(url) and dirname(url): the last segment of the URL's path
\* and the URL without it
Basename(url) == IF Contains(url.path, "/") THEN AfterLast(url.path, "/") ELSE url.path
UrlDirname(url) ==
    Url(url.scheme, IF Contains(url.path, "/") THEN BeforeLast(url.path, "/") ELSE <<>>)

PlaceholderLabel == <<"Search using 'Everything' from the command palette">>

\* Name.get_str(url): the text of the Name column
NameStr(term, cache, url) ==
    IF url.scheme # Scheme THEN Basename(url)
    ELSE IF url.path = Placeholder THEN PlaceholderLabel
    ELSE LET index == ExtractIndexGeneral(url.path)
         IN IF Len(index) = 0 THEN Basename(url)
            ELSE LET item == GetItem(term, cache, index[1])
                 IN IF Len(item) = 0 THEN Basename(url) ELSE item[1].filename

\* Path.get_str(url): the text of the Path column, the directory of the
\* result or the URL fman's dirname gives
PathStr(term, cache, url) ==
    IF url.scheme # Scheme THEN UrlDirname(url)
    ELSE IF url.path = Placeholder THEN <<>>
    ELSE LET index == ExtractIndexGeneral(url.path)
         IN IF Len(index) = 0 THEN UrlDirname(url)
            ELSE LET item == GetItem(term, cache, index[1])
                 IN IF Len(item) = 0 THEN UrlDirname(url)
                    ELSE SubSeq(item[1].path, 1, Len(item[1].path) - 1)

\* is_dir(path): the result whose directory-ness it asks os.path.isdir for,
\* <<>> where it returns False without asking
IsDirItem(term, cache, path) ==
    IF path = Placeholder THEN <<>>
    ELSE IF Contains(path, "/")
    THEN LET index == PyInt(AfterLast(path, "/"))
         IN IF Len(index) > 0 /\ Cached(cache, term)
               /\ 0 <= index[1] /\ index[1] < Len(cache[term].results)
            THEN <<cache[term].results[index[1] + 1]>>
            ELSE <<>>
    ELSE <<>>

\* os.path.dirname of the path of a result
Dirname(file_path) == SubSeq(file_path, 1, Len(file_path) - 1)

\* one call on the host: pane.set_path, pane.run_command, pane.place_cursor_at
\* or show_alert, with its URL and, for set_path, the URL the callback places
\* the cursor at
NoUrl == Url("", <<>>)
PaneCall(call, url, callback) == [call |-> call, url |-> url, callback |-> callback]

\* on_doubleclicked(file_url): the calls on the host and the value returned;
\* isdir is what os.path.isdir answers for the path of the result
OnDoubleclickedDoes(term, cache, file_url, isdir) ==
    IF file_url.scheme # Scheme \/ file_url.path = Placeholder
    THEN [pane |-> <<>>, returned |-> "None", item |-> <<>>]
    ELSE LET index == ExtractIndex(file_url.path)
         IN IF Len(index) = 0
            THEN [pane |-> <<>>, returned |-> "None", item |-> <<>>]
            ELSE LET item == GetItem(term, cache, index[1])
                 IN IF Len(item) = 0
                    THEN [pane |-> <<>>, returned |-> "True", item |-> item]
                    ELSE IF isdir
                    THEN [pane |-> <<PaneCall("set_path", AsUrl(item[1].path), <<>>)>>,
                          returned |-> "True", item |-> item]
                    ELSE [pane |-> <<PaneCall("run_command_open", AsUrl(item[1].path), <<>>)>>,
                          returned |-> "True", item |-> item]

\* on_command(command_name, {'url': url}): the calls on the host, the value
\* returned, and whether the file and its index are stored
OnCommandDoes(term, cache, command_name, url, isdir) ==
    IF command_name # "open_file" \/ url.scheme # Scheme
    THEN [pane |-> <<>>, returned |-> "None", item |-> <<>>, index |-> 0, stores |-> FALSE]
    ELSE IF url.path = Placeholder \/ url.path = <<"/">> \o Placeholder
    THEN [pane |-> <<>>, returned |-> "False", item |-> <<>>, index |-> 0, stores |-> FALSE]
    ELSE IF ~Contains(url.path, "/")
    THEN [pane |-> <<>>, returned |-> "None", item |-> <<>>, index |-> 0, stores |-> FALSE]
    ELSE LET index == ExtractIndexGeneral(url.path)
         IN IF Len(index) = 0
            THEN [pane |-> <<PaneCall("show_alert", NoUrl, <<>>)>>, returned |-> "None",
                  item |-> <<>>, index |-> 0, stores |-> FALSE]
            ELSE LET item == GetItem(term, cache, index[1])
                     alerts == <<PaneCall("show_alert", NoUrl, <<>>),
                                 PaneCall("show_alert", NoUrl, <<>>)>>
                 IN IF Len(item) = 0
                    THEN [pane |-> alerts, returned |-> "None", item |-> item,
                          index |-> index[1], stores |-> FALSE]
                    ELSE IF isdir
                    THEN [pane |-> alerts \o
                                   <<PaneCall("show_alert", NoUrl, <<>>),
                                     PaneCall("set_path", AsUrl(item[1].path), <<>>)>>,
                          returned |-> "True", item |-> item, index |-> index[1],
                          stores |-> FALSE]
                    ELSE [pane |-> alerts \o
                                   <<PaneCall("set_path", AsUrl(Dirname(item[1].path)),
                                              <<AsUrl(item[1].path)>>),
                                     PaneCall("show_alert", NoUrl, <<>>)>>,
                          returned |-> "open_directory", item |-> item, index |-> index[1],
                          stores |-> TRUE]

\* on_path_changed(): the calls on the host, for the scheme of the pane's path
OnPathChangedDoes(term, file, index, scheme) ==
    IF scheme = Scheme /\ Len(file) > 0
    THEN <<PaneCall("place_cursor_at",
                    Url(Scheme, <<"/">> \o Quote(term) \o <<"/", "/">> \o Decimal(index)),
                    <<>>)>>
    ELSE <<>>

(***************************************************************************)
(* Inputs                                                                  *)
(***************************************************************************)
\* the search term a path of the form '/' + quote(term) stands for
RootPath(term) == <<"/">> \o Quote(term)

Terms ==
    {<<>>, <<"a", "b">>, <<"1", "2">>, <<"a", "b", "c">>, <<"1", "2", "3">>,
     <<"a", " ", "b">>}

LongTerms == {t \in Terms : Len(t) >= MinQueryLen}

\* the paths the host lists: the query roots, a result item path, the
\* placeholder, the empty path, the legacy '?' form, a path without leading slash
ListPaths ==
    {RootPath(t) : t \in Terms}
    \cup {<<"/", "0">>, Placeholder, <<>>, <<"x", "?", "a", "b", "c">>, <<"a", "/">>}

Indices == {-1, 0, 1, 2, ResultCap - 1, ResultCap, 9999}

\* the path of result i of the search term: its root path, '/', the index
ChildPath(term, i) == RootPath(term) \o <<"/">> \o Decimal(i)

Observation(op, path, index, yielded, result, raised, calls, searches) ==
    [op |-> op, path |-> path, index |-> index, yielded |-> yielded,
     result |-> result, raised |-> raised, calls |-> calls, searches |-> searches]

(***************************************************************************)
(* Module load and the operations                                          *)
(***************************************************************************)
\* a module load that keeps the dll mode when the DLL cannot be loaded
LoadDllKeepsMode(configured, dllExists, load) ==
    IF configured = "dll"
    THEN IF ~dllExists THEN [mode |-> "dll", dll |-> FALSE]
         ELSE IF load = "ok" THEN [mode |-> "dll", dll |-> TRUE]
         ELSE IF load = "setup_failed" THEN [mode |-> "dll", dll |-> TRUE]
         ELSE [mode |-> "dll", dll |-> FALSE]
    ELSE [mode |-> "api", dll |-> FALSE]

\* the mode and the DLL handle after the module is loaded: the DLL is loaded
\* only in dll mode; a missing file, a failing WinDLL() ("load_failed") or a
\* failure while declaring the functions of the loaded DLL ("setup_failed")
\* forces api mode
LoadOutcomes == {"ok", "load_failed", "setup_failed"}

LoadDll(configured, dllExists, load) ==
    IF configured = "dll"
    THEN IF ~dllExists THEN [mode |-> "api", dll |-> FALSE]
         ELSE IF load = "ok" THEN [mode |-> "dll", dll |-> TRUE]
         ELSE IF load = "setup_failed" THEN [mode |-> "api", dll |-> TRUE]
         ELSE [mode |-> "api", dll |-> FALSE]
    ELSE [mode |-> "api", dll |-> FALSE]

\* history of the listings of one search term, by its root path or by any
\* path iterdir decodes to it; no term is followed when probe is NoProbe
NoProbe == <<>>
Counted(path) ==
    /\ probe # NoProbe
    /\ \/ path = RootPath(probe)
       \/ DecodeListing(path).update /\ DecodeListing(path).term = probe

\* what the environment answered during one call: the DLL, the HTTP API, and
\* os.path.isdir() of a result's path; "none" where it was not asked
NoNative == [kind |-> "none", count |-> 0, unreadable |-> {}]
NoRemote == [kind |-> "none", status |-> 0, count |-> 0, len |-> 0]
Answers(nat, rem, isdir) == [nat |-> nat, rem |-> rem, isdir |-> isdir]
NoAnswers == Answers(NoNative, NoRemote, "none")

\* what the module load met: the mode of the settings, whether the DLL file
\* exists, and how loading it went
NoStartup == [configured |-> "none", dllExists |-> FALSE, load |-> "none"]

Init ==
    /\ \E configured \in {"dll", "api"}, dllExists \in BOOLEAN, load \in LoadOutcomes :
         LET l == LoadDll(configured, dllExists, load)
         IN mode = l.mode /\ everything_dll = l.dll
    /\ current_search_term = <<>>
    /\ results_cache = NoCache
    /\ lastOp = Observation("init", <<>>, 0, <<>>, <<>>, FALSE, <<>>, 0)
    /\ probe = NoProbe
    /\ probeLog = <<>>
    /\ last_selected_file = <<>>
    /\ last_selected_index = 0
    /\ selectedUnder = <<>>
    /\ answers = NoAnswers
    /\ pane = <<>>
    /\ startup = NoStartup

\* the same start, following one of the long search terms
InitHist ==
    /\ \E configured \in {"dll", "api"}, dllExists \in BOOLEAN, load \in LoadOutcomes :
         LET l == LoadDll(configured, dllExists, load)
         IN mode = l.mode /\ everything_dll = l.dll
    /\ current_search_term = <<>>
    /\ results_cache = NoCache
    /\ lastOp = Observation("init", <<>>, 0, <<>>, <<>>, FALSE, <<>>, 0)
    /\ probe \in LongTerms
    /\ probeLog = <<>>
    /\ last_selected_file = <<>>
    /\ last_selected_index = 0
    /\ selectedUnder = <<>>
    /\ answers = NoAnswers
    /\ pane = <<>>
    /\ startup = NoStartup

\* the same start, what the module load met being kept
InitLoad ==
    /\ \E configured \in {"dll", "api"}, dllExists \in BOOLEAN, load \in LoadOutcomes :
         LET l == LoadDll(configured, dllExists, load)
         IN /\ mode = l.mode /\ everything_dll = l.dll
            /\ startup = [configured |-> configured, dllExists |-> dllExists,
                          load |-> load]
    /\ current_search_term = <<>>
    /\ results_cache = NoCache
    /\ lastOp = Observation("init", <<>>, 0, <<>>, <<>>, FALSE, <<>>, 0)
    /\ probe = NoProbe
    /\ probeLog = <<>>
    /\ last_selected_file = <<>>
    /\ last_selected_index = 0
    /\ selectedUnder = <<>>
    /\ answers = NoAnswers
    /\ pane = <<>>

\* the answers drawn for one listing: the DLL answers only if it is called,
\* the API only if it is called
Searches(path) ==
    LET d == DecodeListing(path)
    IN d.update /\ Len(d.term) >= MinQueryLen /\ ~Cached(results_cache, d.term)

NativeAnswers(path) ==
    IF Searches(path) /\ mode = "dll" /\ everything_dll THEN NativeOutcomes ELSE {NoNative}

RemoteAnswers(path, nat) ==
    IF Searches(path) /\ ~(mode = "dll" /\ everything_dll /\ nat.kind = "ok")
    THEN RemoteOutcomes ELSE {NoRemote}

\* the host lists `path`: iterdir(path), consumed to its end
Iterdir(path) ==
    \E nat \in NativeAnswers(path) : \E rem \in RemoteAnswers(path, nat) :
        LET d == DecodeListing(path)
            u == IF d.update
                 THEN UpdateSearch(results_cache, d.term, nat, rem)
                 ELSE [cache |-> results_cache, calls |-> <<>>, searches |-> 0,
                       raised |-> FALSE]
            term == IF d.update THEN d.term ELSE current_search_term
        IN /\ Counted(path) => Len(probeLog) < MaxListings
           /\ current_search_term' = term
           /\ results_cache' = u.cache
           /\ lastOp' = Observation("iterdir", path, 0,
                            IF u.raised THEN <<>> ELSE Yielded(term, u.cache),
                            <<>>, u.raised, u.calls, u.searches)
           /\ probeLog' = IF Counted(path)
                          THEN Append(probeLog,
                                   [searches |-> u.searches,
                                    ok |-> u.searches = 1 /\ u.calls[Len(u.calls)].ok])
                          ELSE probeLog
           /\ answers' = Answers(nat, rem, "none")
           /\ pane' = <<>>
           /\ UNCHANGED <<startup, mode, everything_dll, probe, last_selected_file,
                          last_selected_index, selectedUnder>>

\* a column or a listener looks up a result: get_item_at_index(index)
GetItemAtIndex(index) ==
    /\ lastOp' = Observation("get_item_at_index", <<>>, index, <<>>,
                     GetItem(current_search_term, results_cache, index), FALSE, <<>>, 0)
    /\ answers' = NoAnswers
    /\ pane' = <<>>
    /\ UNCHANGED <<startup, mode, everything_dll, current_search_term, results_cache, probe,
                   probeLog, last_selected_file, last_selected_index, selectedUnder>>

\* a resolve that makes the term its path decodes to the current one
ResolveAdoptsTerm(path) ==
    /\ lastOp' = Observation("resolve", path, 0, <<>>,
                     Resolved(current_search_term, results_cache, path), FALSE, <<>>, 0)
    /\ current_search_term' = IF DecodeListing(path).update
                              THEN DecodeListing(path).term ELSE current_search_term
    /\ answers' = NoAnswers
    /\ pane' = <<>>
    /\ UNCHANGED <<startup, mode, everything_dll, results_cache, probe,
                   probeLog, last_selected_file, last_selected_index, selectedUnder>>

\* the host resolves a path: resolve(path)
Resolve(path) ==
    /\ lastOp' = Observation("resolve", path, 0, <<>>,
                     Resolved(current_search_term, results_cache, path), FALSE, <<>>, 0)
    /\ answers' = NoAnswers
    /\ pane' = <<>>
    /\ UNCHANGED <<startup, mode, everything_dll, current_search_term, results_cache, probe,
                   probeLog, last_selected_file, last_selected_index, selectedUnder>>

\* the host asks for the text of the Size column: Size.get_str(url)
SizeGetStr(url) ==
    /\ lastOp' = Observation("Size.get_str", url, 0, <<>>,
                     SizeStr(current_search_term, results_cache, url), FALSE, <<>>, 0)
    /\ answers' = NoAnswers
    /\ pane' = <<>>
    /\ UNCHANGED <<startup, mode, everything_dll, current_search_term, results_cache, probe,
                   probeLog, last_selected_file, last_selected_index, selectedUnder>>

\* the host asks for the text of the DateModified column:
\* DateModified.get_str(url)
DateModifiedGetStr(url) ==
    /\ lastOp' = Observation("DateModified.get_str", url, 0, <<>>,
                     DateModifiedStr(current_search_term, results_cache, url),
                     FALSE, <<>>, 0)
    /\ answers' = NoAnswers
    /\ pane' = <<>>
    /\ UNCHANGED <<startup, mode, everything_dll, current_search_term, results_cache, probe,
                   probeLog, last_selected_file, last_selected_index, selectedUnder>>

\* the host asks for the text of the Name column: Name.get_str(url)
NameGetStr(url) ==
    /\ lastOp' = Observation("Name.get_str", url, 0, <<>>,
                     NameStr(current_search_term, results_cache, url), FALSE, <<>>, 0)
    /\ answers' = NoAnswers
    /\ pane' = <<>>
    /\ UNCHANGED <<startup, mode, everything_dll, current_search_term, results_cache, probe,
                   probeLog, last_selected_file, last_selected_index, selectedUnder>>

\* the host asks for the text of the Path column: Path.get_str(url)
PathGetStr(url) ==
    /\ lastOp' = Observation("Path.get_str", url, 0, <<>>,
                     PathStr(current_search_term, results_cache, url), FALSE, <<>>, 0)
    /\ answers' = NoAnswers
    /\ pane' = <<>>
    /\ UNCHANGED <<startup, mode, everything_dll, current_search_term, results_cache, probe,
                   probeLog, last_selected_file, last_selected_index, selectedUnder>>

\* what os.path.isdir answered, "none" when it was not asked
IsDirAnswer(asked, isdir) == IF ~asked THEN "none" ELSE IF isdir THEN "dir" ELSE "file"

\* the host asks whether a path is a directory: the body of is_dir(path), the
\* index of the found result kept in the observation
IsDir(path) ==
    \E isdir \in BOOLEAN :
        LET item == IsDirItem(current_search_term, results_cache, path)
            asked == Len(item) > 0
        IN /\ asked \/ ~isdir
           /\ lastOp' = Observation("is_dir", path, 0, <<>>, asked /\ isdir, FALSE,
                            <<>>, 0)
           /\ answers' = Answers(NoNative, NoRemote, IsDirAnswer(asked, isdir))
           /\ pane' = <<>>
           /\ UNCHANGED <<startup, mode, everything_dll, current_search_term, results_cache,
                          probe, probeLog, last_selected_file, last_selected_index,
                          selectedUnder>>

\* the user double-clicks an entry: on_doubleclicked(file_url)
OnDoubleclicked(file_url) ==
    \E isdir \in BOOLEAN :
        LET d == OnDoubleclickedDoes(current_search_term, results_cache, file_url, isdir)
            asked == Len(d.item) > 0
        IN /\ asked \/ ~isdir
           /\ lastOp' = Observation("on_doubleclicked", file_url, 0, <<>>, d.returned,
                            FALSE, <<>>, 0)
           /\ answers' = Answers(NoNative, NoRemote, IsDirAnswer(asked, isdir))
           /\ pane' = d.pane
           /\ UNCHANGED <<startup, mode, everything_dll, current_search_term, results_cache,
                          probe, probeLog, last_selected_file, last_selected_index,
                          selectedUnder>>

\* the host runs a command on an entry: on_command(command_name, {'url': url})
OnCommand(command_name, url) ==
    \E isdir \in BOOLEAN :
        LET d == OnCommandDoes(current_search_term, results_cache, command_name, url, isdir)
            asked == Len(d.item) > 0
        IN /\ asked \/ ~isdir
           /\ lastOp' = Observation("on_command", url, d.index, <<>>, d.returned,
                            FALSE, <<>>, 0)
           /\ answers' = Answers(NoNative, NoRemote, IsDirAnswer(asked, isdir))
           /\ pane' = d.pane
           /\ last_selected_file' = IF d.stores THEN d.item[1].path ELSE last_selected_file
           /\ last_selected_index' = IF d.stores THEN d.index ELSE last_selected_index
           /\ selectedUnder' = IF d.stores THEN current_search_term ELSE selectedUnder
           /\ UNCHANGED <<startup, mode, everything_dll, current_search_term, results_cache,
                          probe, probeLog>>

\* the host reports that the pane shows another path: on_path_changed(), the
\* pane's path having the given scheme
OnPathChanged(scheme) ==
    /\ lastOp' = Observation("on_path_changed", Url(scheme, <<>>), 0, <<>>, "None",
                     FALSE, <<>>, 0)
    /\ answers' = NoAnswers
    /\ pane' = OnPathChangedDoes(current_search_term, last_selected_file,
                                 last_selected_index, scheme)
    /\ UNCHANGED <<startup, mode, everything_dll, current_search_term, results_cache, probe,
                   probeLog, last_selected_file, last_selected_index, selectedUnder>>

Next ==
    \/ \E path \in ListPaths : Iterdir(path)
    \/ \E index \in Indices : GetItemAtIndex(index)

Spec == Init /\ [][Next]_vars

\* the listings of the long search terms alone, with the history of one of them
HistPaths == {RootPath(t) : t \in LongTerms} \cup {<<"x", "?", "a", "b", "c">>}

NextHist == \E path \in HistPaths : Iterdir(path)

SpecHist == InitHist /\ [][NextHist]_vars

\* the path codec: listings of query roots and of other paths, and resolve
CodecTerms == {<<"a", "b">>, <<"a", " ", "b">>}

CodecListPaths ==
    {RootPath(t) : t \in CodecTerms}
    \cup {ChildPath(<<"a", " ", "b">>, 0), <<"/", "0">>, Placeholder, <<"a", "/">>}

CodecIndices == {0, 1, ResultCap - 1, ResultCap}

ResolvePaths ==
    {ChildPath(t, i) : t \in CodecTerms, i \in CodecIndices}
    \cup {RootPath(t) : t \in CodecTerms}
    \cup {ChildPath(<<"a", " ", "b">>, 0) \o <<"/">>,
          RootPath(<<"a", " ", "b">>) \o <<"/", "/", "1">>,
          RootPath(<<"a", " ", "b">>) \o <<"/", "+", "1">>,
          RootPath(<<"a", " ", "b">>) \o <<"/", "-", "1">>,
          RootPath(<<"a", " ", "b">>) \o <<"/", "1", "x">>,
          <<"/", "1">>, <<"1">>, Placeholder, <<"/">> \o Placeholder, <<>>}

NextCodec ==
    \/ \E path \in CodecListPaths : Iterdir(path)
    \/ \E path \in ResolvePaths : Resolve(path)

SpecCodec == Init /\ [][NextCodec]_vars

\* the listener: listings of two query roots, activations of their entries
\* and of the placeholder, the pane coming back to a path, and in between the
\* host resolving an entry and asking for its size
OpenTerms == {<<"a", "b", "c">>, <<"a", " ", "b">>}

OpenListPaths == {RootPath(t) : t \in OpenTerms}

OpenUrls ==
    {Url(Scheme, ChildPath(<<"a", "b", "c">>, i)) : i \in {0, 1, ResultCap}}
    \cup {Url(Scheme, Placeholder), Url("file://", <<"C:">>)}

NextOpen ==
    \/ \E path \in OpenListPaths : Iterdir(path)
    \/ \E url \in OpenUrls : OnDoubleclicked(url)
    \/ \E command_name \in {"open_file", "open_directory"} :
          \E url \in OpenUrls : OnCommand(command_name, url)
    \/ \E scheme \in {Scheme, "file://"} : OnPathChanged(scheme)
    \/ \E path \in {ChildPath(<<"a", "b", "c">>, 0), Placeholder} : Resolve(path)
    \/ \E url \in {Url(Scheme, ChildPath(<<"a", "b", "c">>, 1)), Url(Scheme, Placeholder)} :
          SizeGetStr(url)

SpecOpen == Init /\ [][NextOpen]_vars

\* the Size column over the results of one search term
SizeIndices == 0..(Len(SizeTable) - 1) \cup {ResultCap}

SizeUrls ==
    {Url(Scheme, ChildPath(<<"a", "b", "c">>, i)) : i \in SizeIndices}
    \cup {Url(Scheme, Placeholder), Url(Scheme, <<"a", "b", "c">>),
          Url(Scheme, RootPath(<<"a", "b", "c">>)), Url(Scheme, <<"/">>),
          Url(Scheme, ChildPath(<<"a", "b", "c">>, 3) \o <<"/">>),
          Url("file://", <<"C:">>)}

NextSize ==
    \/ \E path \in {RootPath(<<"a", "b", "c">>), RootPath(<<"a", "b">>)} : Iterdir(path)
    \/ \E url \in SizeUrls : SizeGetStr(url)

SpecSize == Init /\ [][NextSize]_vars

\* the lookups: the listings of a long and of a short search term, one
\* activation that stores a selection, and resolve, is_dir, get_item_at_index
\* and the four columns over the results of the long term
ColumnIndices == 0..(Len(DateTable) - 1) \cup {ResultCap - 1, ResultCap}

ColumnPaths ==
    {ChildPath(<<"a", "b", "c">>, i) : i \in ColumnIndices}
    \cup {Placeholder, RootPath(<<"a", "b", "c">>), <<"a", "b", "c">>}

ColumnUrls == {Url(Scheme, path) : path \in ColumnPaths} \cup {Url("file://", <<"C:">>)}

LookupPaths ==
    {ChildPath(<<"a", "b", "c">>, i) : i \in {0, 1, 12, ResultCap}}
    \cup {Placeholder, RootPath(<<"a", "b", "c">>), <<"a", "b", "c">>,
          ChildPath(<<"a", "b", "c">>, 1) \o <<"/">>,
          RootPath(<<"a", "b", "c">>) \o <<"/", "/", "2">>,
          RootPath(<<"a", "b", "c">>) \o <<"/", "x", "2">>,
          <<"/", "2">>, <<"/">> \o Placeholder}

LookupUrls == {Url(Scheme, path) : path \in LookupPaths} \cup {Url("file://", <<"C:">>)}

NextColumns ==
    \/ \E path \in {RootPath(<<"a", "b", "c">>), RootPath(<<"a", "b">>)} : Iterdir(path)
    \/ OnCommand("open_file", Url(Scheme, ChildPath(<<"a", "b", "c">>, 1)))
    \/ \E path \in LookupPaths : Resolve(path)
    \/ \E path \in LookupPaths : IsDir(path)
    \/ \E index \in {0, ResultCap} : GetItemAtIndex(index)
    \/ \E url \in LookupUrls : NameGetStr(url)
    \/ \E url \in LookupUrls : PathGetStr(url)
    \/ \E url \in LookupUrls : SizeGetStr(url)
    \/ \E url \in ColumnUrls : DateModifiedGetStr(url)
    \/ \E url \in LookupUrls : OnDoubleclicked(url)

SpecColumns == Init /\ [][NextColumns]_vars

\* the sessions after each outcome of the module load: listings of two terms
\* and a lookup
NextLoad ==
    \/ \E path \in {RootPath(<<"a", "b", "c">>), RootPath(<<"a", " ", "b">>)} :
          Iterdir(path)
    \/ GetItemAtIndex(0)

SpecLoad == InitLoad /\ [][NextLoad]_vars

(***************************************************************************)
(* Properties                                                              *)
(***************************************************************************)
LastCall == lastOp.calls[Len(lastOp.calls)]

\* the listing just made called update_search with a term
Listed == lastOp.op = "iterdir" /\ DecodeListing(lastOp.path).update
ListedTerm == DecodeListing(lastOp.path).term

\* the children iterdir yields for n results: "/0", "/1", ...
Children(n) == [k \in 1..n |-> <<"/">> \o Decimal(k - 1)]

\* the path has a separator and its last non-empty segment is all digits: the
\* address of a result, as the columns and the listener read a path
IsIndexedChild(path) == Contains(path, "/") /\ IsDigit(LastNonEmptyPart(path, "/"))
IndexOf(path) == ToInt(LastNonEmptyPart(path, "/"))

\* the part of a listed path that holds the encoded search term
Remainder(path) == IF Len(path) > 0 /\ path[1] = "/" THEN Tail1(path) ELSE path

\* C1: for every search term q shorter than 3 characters, a listing of the root
\* path of q yields the placeholder alone, calls no backend and leaves the
\* result cache as it was.
C1_ShortTermListsPlaceholder ==
    [][\A q \in Terms :
          (Len(q) < MinQueryLen /\ lastOp'.op = "iterdir" /\ lastOp'.path = RootPath(q))
          => /\ lastOp'.yielded = <<Placeholder>>
             /\ lastOp'.calls = <<>>
             /\ results_cache' = results_cache]_vars

\* C2 as stated: for every search term q of at least 3 characters the first
\* listing of q runs search_everything exactly once and the second listing of q
\* runs it not at all.
C2_FirstListingSearchesSecondDoesNot ==
    /\ Len(probeLog) >= 1 => probeLog[1].searches = 1
    /\ Len(probeLog) >= 2 => probeLog[2].searches = 0

\* C2 as amended: for a term that is not all digits the first listing runs
\* search_everything exactly once; the second listing runs it not at all if
\* that search succeeded and exactly once more if it failed.  The root path of
\* an all-digit term is a result item path: listing it never searches.
C2_FirstListingSearchesSecondHitsCache ==
    /\ ~IsDigit(probe) =>
          /\ Len(probeLog) >= 1 => probeLog[1].searches = 1
          /\ Len(probeLog) >= 2 =>
                probeLog[2].searches = (IF probeLog[1].ok THEN 0 ELSE 1)
    /\ IsDigit(probe) => \A i \in 1..Len(probeLog) : probeLog[i].searches = 0

C2_SecondListingAfterSuccess ==
    /\ probe # NoProbe /\ ~IsDigit(probe)
    /\ Len(probeLog) = 2 /\ probeLog[1].ok /\ probeLog[2].searches = 0

\* C3: a listing of the root path of a term that has cached results calls no
\* backend and leaves the whole result cache as it was.
C3_CachedListingIsQuiet ==
    [][\A q \in DOMAIN results_cache :
          (lastOp'.op = "iterdir" /\ lastOp'.path = RootPath(q))
          => /\ lastOp'.calls = <<>>
             /\ lastOp'.searches = 0
             /\ results_cache' = results_cache]_vars

C3_CacheHit ==
    /\ lastOp.op = "iterdir" /\ lastOp.searches = 0
    /\ \E q \in DOMAIN results_cache :
          lastOp.path = RootPath(q) /\ Len(results_cache[q].results) >= 1

\* C4: when the search for an uncached term of at least 3 characters fails,
\* nothing is stored under the term and the listing yields the placeholder
\* alone; the next listing of the term searches again, and a search that
\* succeeds caches the term and the listing yields its result children.
C4_FailedSearchIsRetried ==
    /\ (Listed /\ lastOp.searches = 1 /\ ~LastCall.ok)
       => /\ ~Cached(results_cache, ListedTerm)
          /\ lastOp.yielded = <<Placeholder>>
    /\ \A i \in 1..(Len(probeLog) - 1) :
          (probeLog[i].searches = 1 /\ ~probeLog[i].ok) => probeLog[i + 1].searches = 1
    /\ (Listed /\ lastOp.searches = 1 /\ LastCall.ok)
       => /\ Cached(results_cache, ListedTerm)
          /\ lastOp.yielded = Children(Len(results_cache[ListedTerm].results))

C4_RetrySucceeded ==
    /\ Len(probeLog) = 2 /\ ~probeLog[1].ok /\ probeLog[2].ok
    /\ Listed /\ ListedTerm = probe /\ Len(lastOp.yielded) >= 2

\* C5: in dll mode, whenever the DLL search fails the API is called exactly
\* once, after the DLL, with the same query; if the API call succeeds, what it
\* returned is what is cached under the query.
C5_DllFailureFallsBackToApi ==
    (lastOp.op = "iterdir" /\ Len(lastOp.calls) >= 1
        /\ lastOp.calls[1].backend = "dll" /\ ~lastOp.calls[1].ok)
    => /\ Len(lastOp.calls) = 2
       /\ lastOp.calls[2].backend = "api"
       /\ lastOp.calls[2].query = lastOp.calls[1].query
       /\ lastOp.calls[2].ok =>
             LET q == lastOp.calls[2].query
             IN /\ Cached(results_cache, q)
                /\ results_cache[q].count = lastOp.calls[2].count
                /\ results_cache[q].results =
                      Capped([k \in 1..lastOp.calls[2].len |-> Entry(q, k - 1)])

C5_FallbackSucceeded ==
    /\ lastOp.op = "iterdir" /\ Len(lastOp.calls) = 2
    /\ ~lastOp.calls[1].ok /\ lastOp.calls[2].ok /\ lastOp.calls[2].len >= 2

\* C6: the fallback is one-way.  In api mode the DLL is never called, and a
\* failed API call, first or as the fallback, is the last call of its search
\* and the failure is the outcome: nothing is cached, the placeholder is shown.
C6_FallbackIsOneWay ==
    lastOp.op = "iterdir" =>
        /\ mode = "api" =>
              \A i \in 1..Len(lastOp.calls) : lastOp.calls[i].backend = "api"
        /\ \A i \in 1..Len(lastOp.calls) :
              (lastOp.calls[i].backend = "api" /\ ~lastOp.calls[i].ok)
              => /\ i = Len(lastOp.calls)
                 /\ ~Cached(results_cache, lastOp.calls[i].query)
                 /\ lastOp.yielded = <<Placeholder>>

C6_ApiFailureIsFinal ==
    /\ lastOp.op = "iterdir" /\ mode = "api"
    /\ Len(lastOp.calls) = 1 /\ ~lastOp.calls[1].ok

\* C7 as stated: for every cached term the stored results list has length
\* exactly min(count, 100), count being what the backend reported.
C7_StoredLengthIsMinOfCount ==
    \A q \in DOMAIN results_cache :
        Len(results_cache[q].results) = Min(results_cache[q].count, ResultCap)

\* C7 as amended: every cache entry is either the one of the state before or
\* was stored by this listing's search, with the count the backend reported
\* and a results list of length min(L, 100), L being the number of results
\* the backend returned.
C7_StoredLengthIsMinOfReturned ==
    [][\A q \in DOMAIN results_cache' :
          \/ q \in DOMAIN results_cache /\ results_cache'[q] = results_cache[q]
          \/ /\ lastOp'.op = "iterdir" /\ lastOp'.searches = 1
             /\ lastOp'.calls[Len(lastOp'.calls)].ok
             /\ lastOp'.calls[Len(lastOp'.calls)].query = q
             /\ results_cache'[q].count = lastOp'.calls[Len(lastOp'.calls)].count
             /\ Len(results_cache'[q].results)
                   = Min(lastOp'.calls[Len(lastOp'.calls)].len, ResultCap)]_vars

C7_LongResultWasCapped ==
    /\ lastOp.op = "iterdir" /\ lastOp.searches = 1 /\ LastCall.ok
    /\ LastCall.len > ResultCap
    /\ Len(results_cache[LastCall.query].results) = ResultCap

\* C8: every listing, whatever the path, the cache and the backends' answers,
\* ends without an exception and yields at least one entry.
C8_ListingNeverEmpty ==
    lastOp.op = "iterdir" => ~lastOp.raised /\ Len(lastOp.yielded) >= 1

\* C9: after a listing that decoded a term which is then cached (its search
\* succeeded or it was cached already), the listing has yielded the children
\* "/0" .. "/N-1" in this order, N the stored number of results, and no
\* placeholder, and get_item_at_index of every yielded index is that result.
C9_ListingYieldsEveryIndex ==
    (Listed /\ Len(ListedTerm) >= MinQueryLen /\ Cached(results_cache, ListedTerm))
    => LET results == results_cache[ListedTerm].results
       IN /\ lastOp.yielded = Children(Len(results))
          /\ \A k \in 1..Len(lastOp.yielded) :
                /\ lastOp.yielded[k] # Placeholder
                /\ ToInt(Tail1(lastOp.yielded[k])) = k - 1
                /\ GetItem(current_search_term, results_cache,
                           ToInt(Tail1(lastOp.yielded[k]))) = <<results[k]>>

C9_FullListing ==
    /\ Listed /\ Cached(results_cache, ListedTerm)
    /\ Len(lastOp.yielded) = ResultCap

\* C10: get_item_at_index raises nothing; it returns None when the current
\* search term is shorter than 3 characters, when the term has no cached
\* results, or when the index is outside 0..N-1, and results[index] otherwise.
C10_GetItemAtIndexIsTotal ==
    lastOp.op = "get_item_at_index" =>
        /\ ~lastOp.raised
        /\ IF \/ Len(current_search_term) < MinQueryLen
              \/ ~Cached(results_cache, current_search_term)
           THEN lastOp.result = <<>>
           ELSE LET results == results_cache[current_search_term].results
                IN IF lastOp.index < 0 \/ lastOp.index > Len(results) - 1
                   THEN lastOp.result = <<>>
                   ELSE lastOp.result = <<results[lastOp.index + 1]>>

C10_IndexFarOutOfRange ==
    /\ lastOp.op = "get_item_at_index" /\ lastOp.index = 9999
    /\ Cached(results_cache, current_search_term)
    /\ Len(results_cache[current_search_term].results) >= 2
    /\ lastOp.result = <<>>

\* C11: round trip of the path codec.  For a search term q that is not all
\* digits and an index i within q's cached results, resolve of the child path
\* '/' + quote(q) + '/' + str(i), called after the listing of the root path
\* '/' + quote(q), finds q as the current search term and returns the URL of
\* the path of result i of q.
C11_ChildPathResolvesUnderListedTerm ==
    [][\A q \in CodecTerms : \A i \in CodecIndices :
          (/\ ~IsDigit(q)
           /\ lastOp.op = "iterdir" /\ lastOp.path = RootPath(q)
           /\ lastOp'.op = "resolve" /\ lastOp'.path = ChildPath(q, i)
           /\ Cached(results_cache, q) /\ i < Len(results_cache[q].results))
          => /\ current_search_term = q
             /\ lastOp'.result.scheme = "file://"
             /\ lastOp'.result.path = results_cache[q].results[i + 1].path]_vars

C11_LastChildResolved ==
    /\ lastOp.op = "resolve"
    /\ lastOp.path = ChildPath(<<"a", " ", "b">>, ResultCap - 1)
    /\ current_search_term = <<"a", " ", "b">>
    /\ lastOp.result.scheme = "file://"
    /\ lastOp.result.path = Entry(<<"a", " ", "b">>, ResultCap - 1).path

\* C12: resolve raises nothing.  For a path with a separator whose last
\* non-empty segment is all digits i, 0 <= i < N, N the number of cached
\* results of the current search term, it returns the URL of the path of
\* result i; for every other path it returns the scheme followed by the path.
C12_ResolveByLastNonEmptySegment ==
    lastOp.op = "resolve" =>
        /\ ~lastOp.raised
        /\ IF /\ IsIndexedChild(lastOp.path)
              /\ Cached(results_cache, current_search_term)
              /\ IndexOf(lastOp.path) < Len(results_cache[current_search_term].results)
           THEN /\ lastOp.result.scheme = "file://"
                /\ lastOp.result.path =
                      results_cache[current_search_term].results[IndexOf(lastOp.path) + 1].path
           ELSE /\ lastOp.result.scheme = Scheme
                /\ lastOp.result.path = lastOp.path

\* C13: a listing of a path that has a separator and whose last non-empty
\* segment is all digits leaves the current search term as it was and calls
\* no backend.
C13_ListingChildPathKeepsTerm ==
    [][(lastOp'.op = "iterdir" /\ IsIndexedChild(lastOp'.path))
          => /\ current_search_term' = current_search_term
             /\ lastOp'.calls = <<>>]_vars

\* C14: a listing of a path that is the address of a result or the placeholder
\* yields nothing or the placeholder alone, never the children of a search.
C14_ListingChildPathYieldsNoChildren ==
    (lastOp.op = "iterdir" /\ (lastOp.path = Placeholder \/ IsIndexedChild(lastOp.path)))
    => \A k \in 1..Len(lastOp.yielded) : lastOp.yielded[k] = Placeholder

\* C15: after a listing of a path with a separator whose final segment is not
\* all digits, the current search term is the percent-decoded remainder of the
\* path, whatever its length, the cache and the outcome of the search; every
\* other step that is not a listing of a path holding a search term (neither
\* the placeholder nor the address of a result) leaves the current search
\* term as it is.
C15_CurrentTermIsLastDecoded ==
    [][/\ (lastOp'.op = "iterdir" /\ Contains(lastOp'.path, "/")
            /\ ~IsIndexedChild(lastOp'.path))
          => current_search_term' = Unquote(Remainder(lastOp'.path))
       /\ ~(lastOp'.op = "iterdir" /\ lastOp'.path # Placeholder
             /\ ~IsIndexedChild(lastOp'.path))
          => current_search_term' = current_search_term]_vars

\* C16: the result cache never evicts.  Whatever the step (a listing of any
\* path with a search that succeeds or fails, a resolve, a Size text, a
\* double-click, a command, a change of the pane's path), every search term
\* cached before the step is cached after it with the same count and results.
C16_CacheNeverEvicts ==
    [][\A q \in DOMAIN results_cache :
          /\ q \in DOMAIN results_cache'
          /\ results_cache'[q] = results_cache[q]]_vars

C16_SecondTermStored ==
    /\ lastOp.op = "iterdir" /\ lastOp.searches = 1 /\ LastCall.ok
    /\ Cardinality(DOMAIN results_cache) = 2

\* C17: on every double-click or open_file command on an entry whose index is
\* within the results: if the path of the result is a directory the host is
\* told to show it; if it is a file the host is told to open the file itself,
\* is not told to go to another path, and the stored selection is the path
\* and the index of the result.
C17_ActivationOpensFileDirectly ==
    (lastOp.op \in {"on_doubleclicked", "on_command"} /\ answers.isdir # "none")
    => LET index == IndexOf(lastOp.path.path)
           item == GetItem(current_search_term, results_cache, index)[1]
       IN IF answers.isdir = "dir"
          THEN \E k \in 1..Len(pane) :
                  /\ pane[k].call = "set_path"
                  /\ pane[k].url.scheme = "file://"
                  /\ pane[k].url.path = item.path
          ELSE /\ \E k \in 1..Len(pane) :
                     /\ pane[k].call = "run_command_open"
                     /\ pane[k].url.scheme = "file://"
                     /\ pane[k].url.path = item.path
               /\ \A k \in 1..Len(pane) : pane[k].call # "set_path"
               /\ last_selected_file = item.path
               /\ last_selected_index = index

\* C18: when the pane comes back to a path of the search, the cursor is placed
\* only if a file is stored as the selection and it was stored under the
\* search term that is current now.
C18_CursorOnlyForCurrentTerm ==
    (lastOp.op = "on_path_changed"
        /\ \E k \in 1..Len(pane) : pane[k].call = "place_cursor_at")
    => /\ Len(last_selected_file) > 0
       /\ selectedUnder = current_search_term

\* C19: a failed call of the HTTP API reports HTTP 400 as an invalid query,
\* HTTP 404 as an endpoint not found, any other HTTP error status as an HTTP
\* error, a failure of the network (no connection, no answer in time) as a
\* failed connection, and a body that is not JSON as a parse error; an HTTP
\* error status is never reported as a failed connection.
C19_RemoteFailureKinds ==
    (lastOp.op = "iterdir" /\ Len(lastOp.calls) >= 1
        /\ LastCall.backend = "api" /\ ~LastCall.ok)
    => LET rem == answers.rem
       IN /\ (rem.kind = "http" /\ rem.status = 400) => LastCall.error = "invalid_query"
          /\ (rem.kind = "http" /\ rem.status = 404) => LastCall.error = "endpoint_not_found"
          /\ (rem.kind = "http" /\ rem.status \notin {400, 404})
                => LastCall.error = "http_error"
          /\ rem.kind \in {"url_error", "read_timeout"}
                => LastCall.error = "connection_failed"
          /\ rem.kind = "json_error" => LastCall.error = "parse_error"
          /\ rem.kind = "http" => LastCall.error # "connection_failed"

\* C20: the Size text of a result of n bytes is n and ' B' below 1024; from
\* 1024 the quotient by 1024, from 1024^2 by 1024^2, from 1024^3 by 1024^3, to
\* the nearest tenth with one decimal, and ' KB', ' MB', ' GB'; 512 gives
\* '512 B', 2048 '2.0 KB', 5*1024^2 '5.0 MB', 3*1024^3 '3.0 GB'.  For the
\* placeholder and for a path without an index the text is empty.
C20_SizeTextByBinaryThresholds ==
    (lastOp.op = "Size.get_str" /\ lastOp.path.scheme = Scheme)
    => LET path == lastOp.path.path
           item == GetItem(current_search_term, results_cache, IndexOf(path))
           n == item[1].size
           unit == IF n.mib = 0 THEN "K" ELSE IF n.mib < Kib THEN "M" ELSE "G"
           x == TimesTenOver(n, unit)
       IN /\ (path = Placeholder \/ ~IsIndexedChild(path)) => lastOp.result = <<>>
          /\ (IsIndexedChild(path) /\ Len(item) > 0) =>
                /\ IF n.mib = 0 /\ n.rest < Kib
                   THEN lastOp.result = Decimal(n.rest) \o <<" ", "B">>
                   ELSE \E t \in {x.q, x.q + 1} :
                          /\ t = x.q => x.r <= x.d \div 2
                          /\ t = x.q + 1 => x.r >= x.d \div 2
                          /\ lastOp.result = OneDecimal(t) \o <<" ", unit, "B">>
                /\ n = Bytes(0, 512) => lastOp.result = <<"5", "1", "2", " ", "B">>
                /\ n = Bytes(0, 2048) => lastOp.result = <<"2", ".", "0", " ", "K", "B">>
                /\ n = Bytes(5, 0) => lastOp.result = <<"5", ".", "0", " ", "M", "B">>
                /\ n = Bytes(3 * Kib, 0) => lastOp.result = <<"3", ".", "0", " ", "G", "B">>

C20_ThreeGigabytes ==
    /\ lastOp.op = "Size.get_str"
    /\ lastOp.path = Url(Scheme, ChildPath(<<"a", "b", "c">>, 3))
    /\ lastOp.result = <<"3", ".", "0", " ", "G", "B">>

\* the call just made was DateModified.get_str for the path of a result the
\* current search term holds, and DateItem is that result
DateAsked ==
    /\ lastOp.op = "DateModified.get_str"
    /\ lastOp.path.scheme = Scheme
    /\ lastOp.path.path # Placeholder
    /\ Len(ExtractIndex(lastOp.path.path)) > 0
    /\ Len(GetItem(current_search_term, results_cache,
                   ExtractIndex(lastOp.path.path)[1])) > 0
DateItem ==
    GetItem(current_search_term, results_cache, ExtractIndex(lastOp.path.path)[1])[1]

\* a date-time 'YYYY-MM-DDTHH:MM:SS' of the calendar, and after it nothing, a
\* 'Z', a '+' with an offset, or '-HH:MM'
IsDateTime(s) ==
    /\ Len(s) >= 19
    /\ \A k \in {1, 2, 3, 4, 6, 7, 9, 10, 12, 13, 15, 16, 18, 19} : s[k] \in DigitSet
    /\ s[5] = "-" /\ s[8] = "-" /\ s[11] = "T" /\ s[14] = ":" /\ s[17] = ":"
    /\ ToInt(SubSeq(s, 1, 4)) >= 1
    /\ ToInt(SubSeq(s, 6, 7)) \in 1..12
    /\ ToInt(SubSeq(s, 9, 10)) \in
          1..DaysInMonth(ToInt(SubSeq(s, 1, 4)), ToInt(SubSeq(s, 6, 7)))
    /\ ToInt(SubSeq(s, 12, 13)) \in 0..23
    /\ ToInt(SubSeq(s, 15, 16)) \in 0..59
    /\ ToInt(SubSeq(s, 18, 19)) \in 0..59
    /\ LET zone == SubSeq(s, 20, Len(s))
       IN \/ zone = <<>>
          \/ zone = <<"Z">>
          \/ /\ Len(zone) \in {5, 6} /\ zone[1] = "+"
             /\ \A k \in 2..Len(zone) : zone[k] \in DigitSet \cup {":"}
          \/ /\ Len(zone) = 6 /\ zone[1] = "-" /\ zone[4] = ":"
             /\ \A k \in {2, 3, 5, 6} : zone[k] \in DigitSet

\* C21: the DateModified text of a result whose date is a date-time string
\* with nothing, 'Z', '+offset' or '-HH:MM' after it is the date, a blank and
\* the time: 'YYYY-MM-DD HH:MM:SS'; the text of a result whose date string
\* does not parse is that string unchanged.
C21_DateTextIsReformattedOrUnchanged ==
    (DateAsked /\ DateItem.date_modified # PyNone)
    => LET date == DateItem.date_modified
       IN /\ IsDateTime(date)
                => lastOp.result = SubSeq(date, 1, 10) \o <<" ">> \o SubSeq(date, 12, 19)
          /\ Strptime(StripZone(date)) = <<>> => lastOp.result = date

\* the date of result 0, '2024-03-05T12:30:00Z', was shown as
\* '2024-03-05 12:30:00'
C21_ZuluDateShown ==
    /\ DateAsked
    /\ ExtractIndex(lastOp.path.path) = <<0>>
    /\ DateItem.date_modified = DateTable[1]
    /\ lastOp.result = <<"2", "0", "2", "4", "-", "0", "3", "-", "0", "5", " ",
                         "1", "2", ":", "3", "0", ":", "0", "0">>

\* C30: the DateModified text is a string for every path, also for a result
\* in range whose date is absent: never None.
C30_DateTextIsAlwaysAString ==
    lastOp.op = "DateModified.get_str" => lastOp.result # PyNone

\* C22: in every reachable state every key of the results cache has at least
\* 3 characters, and so has every query a call of the DLL or of the HTTP API
\* was given.
C22_NoShortTermSearchedOrCached ==
    /\ \A q \in DOMAIN results_cache : Len(q) >= MinQueryLen
    /\ \A k \in 1..Len(lastOp.calls) : Len(lastOp.calls[k].query) >= MinQueryLen

\* a term of two characters was listed, after a longer term was searched and
\* stored: no backend was called and the cache holds the longer term alone
C22_ShortTermListedAfterSearch ==
    /\ lastOp.op = "iterdir" /\ lastOp.path = RootPath(<<"a", "b">>)
    /\ current_search_term = <<"a", "b">>
    /\ lastOp.calls = <<>>
    /\ DOMAIN results_cache = {<<"a", "b", "c">>}

\* the lookups: resolve, is_dir, get_item_at_index and the four columns
ReadOps ==
    {"resolve", "is_dir", "get_item_at_index", "Name.get_str", "Path.get_str",
     "Size.get_str", "DateModified.get_str"}

\* C23: a call of resolve, is_dir, get_item_at_index or of the get_str of the
\* Name, Path, Size or DateModified column calls no backend and leaves the
\* results cache, the current search term and the stored selection as they
\* were, for any path and in any state.
C23_LookupsAreReadOnly ==
    [][lastOp'.op \in ReadOps
        => /\ lastOp'.calls = <<>> /\ lastOp'.searches = 0
           /\ answers'.nat = NoNative /\ answers'.rem = NoRemote
           /\ results_cache' = results_cache
           /\ current_search_term' = current_search_term
           /\ last_selected_file' = last_selected_file
           /\ last_selected_index' = last_selected_index]_vars

\* is_dir found result 1 a directory, in a state with a stored selection and
\* a cached search
C23_DirectoryLookedUp ==
    /\ lastOp.op = "is_dir" /\ lastOp.result = TRUE
    /\ lastOp.path = ChildPath(<<"a", "b", "c">>, 1)
    /\ last_selected_file # <<>>
    /\ Cached(results_cache, <<"a", "b", "c">>)

\* the index the backend gave a stored result
BackendIndex(item) == item.path[3]

\* C24: the results stored for a search term are the first 100, or all if
\* there are fewer, of the results the backend returned, in the backend's
\* order, so never more than 100; the DLL's results are those of the first
\* 100 it found whose full path could be read.
C24_StoredAreFirstHundredInOrder ==
    /\ \A q \in DOMAIN results_cache : Len(results_cache[q].results) <= ResultCap
    /\ (Listed /\ lastOp.searches = 1 /\ LastCall.ok)
        => LET stored == results_cache[ListedTerm].results
               returned ==
                   IF LastCall.backend = "dll"
                   THEN {i \in 0..(answers.nat.count - 1) :
                            i < ResultCap /\ i \notin answers.nat.unreadable}
                   ELSE 0..(answers.rem.len - 1)
               first == {i \in returned : i < ResultCap}
           IN /\ \A k \in 1..Len(stored) : stored[k] = Entry(ListedTerm, BackendIndex(stored[k]))
              /\ \A k \in 1..(Len(stored) - 1) :
                    BackendIndex(stored[k]) < BackendIndex(stored[k + 1])
              /\ {BackendIndex(stored[k]) : k \in 1..Len(stored)} = first
              /\ LastCall.backend = "dll" => LastCall.len = Cardinality(returned)

\* the DLL found two results and could not read the path of the first: the
\* second alone is stored
C24_UnreadableResultOmitted ==
    /\ Listed /\ lastOp.searches = 1 /\ LastCall.ok /\ LastCall.backend = "dll"
    /\ answers.nat.count = 2 /\ answers.nat.unreadable = {0}
    /\ results_cache[ListedTerm].results = <<Entry(ListedTerm, 1)>>

\* C25: when at the module load the DLL file is missing or the DLL fails to
\* load, the mode is api from then on and every search of the session calls
\* the HTTP API alone, never the DLL.
C25_FailedLoadForcesApi ==
    (startup # NoStartup /\ (~startup.dllExists \/ startup.load # "ok"))
    => /\ mode = "api"
       /\ \A k \in 1..Len(lastOp.calls) : lastOp.calls[k].backend = "api"

\* dll mode was configured, the DLL file exists and failed to load, and a
\* search was answered by the HTTP API
C25_SearchedByApiAfterFailedLoad ==
    /\ startup.configured = "dll" /\ startup.dllExists /\ startup.load = "load_failed"
    /\ Listed /\ lastOp.searches = 1
    /\ Len(lastOp.calls) = 1 /\ LastCall.backend = "api" /\ LastCall.ok

\* term qA holds a result i, whose child path is the root path of qA, '/', i
HoldsChild(qA, i) == Cached(results_cache, qA) /\ i < Len(results_cache[qA].results)

\* the current search term holds a result i
CurrentHolds(i) ==
    /\ Cached(results_cache, current_search_term)
    /\ i < Len(results_cache[current_search_term].results)

ListingSearches(t) ==
    (lastOp'.op = "iterdir" /\ lastOp'.path = RootPath(t))
    => /\ current_search_term' = t
       /\ ~Cached(results_cache, t)
            => /\ lastOp'.searches = 1
               /\ Len(lastOp'.calls) >= 1
               /\ \A k \in 1..Len(lastOp'.calls) : lastOp'.calls[k].query = t

\* C27 as stated: for every search term of at least 3 characters, a term of
\* decimal digits included, the listing of '/' + quote(term) makes the term
\* the current search term and searches for it if it is not cached.
C27_EveryLongTermIsSearched ==
    [][\A t \in LongTerms : ListingSearches(t)]_vars

\* C27: for every search term of at least 3 characters that is not made of
\* decimal digits alone, the listing of '/' + quote(term) makes the term the
\* current search term and searches for it if it is not cached; the listing
\* of the root path of a term of digits alone leaves the current search term
\* as it was and calls no backend.
C27_NonDigitTermIsSearched ==
    [][\A t \in LongTerms :
          IF IsDigit(t)
          THEN (lastOp'.op = "iterdir" /\ lastOp'.path = RootPath(t))
               => /\ current_search_term' = current_search_term
                  /\ results_cache' = results_cache
                  /\ lastOp'.calls = <<>> /\ lastOp'.searches = 0
          ELSE ListingSearches(t)]_vars

\* '/123' was listed while 'abc' was the current search term: 'abc' still is,
\* its results were listed and no backend was called
C27_DigitTermListedAsItem ==
    /\ lastOp.op = "iterdir" /\ lastOp.path = RootPath(<<"1", "2", "3">>)
    /\ current_search_term = <<"a", "b", "c">>
    /\ lastOp.calls = <<>>
    /\ ~Cached(results_cache, <<"1", "2", "3">>)
    /\ Len(lastOp.yielded) = 2

\* the columns and the handlers that read an index from the path of a URL
IndexOps ==
    {"Name.get_str", "Path.get_str", "Size.get_str", "DateModified.get_str",
     "on_doubleclicked", "on_command"}

\* C28: for every path the shortcut for the endings '/0', '/1', '/2' of
\* Size.get_str, DateModified.get_str and on_doubleclicked reads the same
\* index as the scan for the last non-empty segment of Name.get_str,
\* Path.get_str and on_command, or both read none: the Name column shows the
\* result the shortcut addresses, and a double-click opens the result the
\* scan addresses.
C28_IndexDecodingAgrees ==
    lastOp.op \in IndexOps
    => LET path == lastOp.path.path
           fast == ExtractIndex(path)
           general == ExtractIndexGeneral(path)
       IN /\ fast = general
          /\ (lastOp.op = "Name.get_str" /\ lastOp.path.scheme = Scheme
                /\ path # Placeholder /\ Len(fast) > 0
                /\ Len(GetItem(current_search_term, results_cache, fast[1])) > 0)
             => lastOp.result =
                    GetItem(current_search_term, results_cache, fast[1])[1].filename
          /\ (lastOp.op = "on_doubleclicked" /\ lastOp.path.scheme = Scheme
                /\ path # Placeholder /\ Len(general) > 0
                /\ Len(GetItem(current_search_term, results_cache, general[1])) > 0)
             => /\ Len(pane) = 1
                /\ pane[1].url =
                     AsUrl(GetItem(current_search_term, results_cache, general[1])[1].path)

\* the Size of '/abc/12' was asked for, a path that ends in 2 and not in
\* '/2', and the size of result 12 was shown
C28_SizeOfResultTwelve ==
    /\ lastOp.op = "Size.get_str"
    /\ lastOp.path.scheme = Scheme
    /\ lastOp.path.path = ChildPath(<<"a", "b", "c">>, 12)
    /\ current_search_term = <<"a", "b", "c">>
    /\ Cached(results_cache, <<"a", "b", "c">>)
    /\ Len(results_cache[<<"a", "b", "c">>].results) > 12
    /\ lastOp.result = FormatSize(SizeOf(12))

\* C29: on_doubleclicked returns True for every URL of the everything://
\* scheme, whatever its path (the placeholder, the root path of a search term,
\* an index within or beyond the results), and returns nothing for a URL of
\* another scheme.
C29_DoubleclickAlwaysSuppresses ==
    lastOp.op = "on_doubleclicked"
    => IF lastOp.path.scheme = Scheme
       THEN lastOp.result = "True"
       ELSE lastOp.result = "None"
====
